---- MODULE Spec2Model ----
(***************************************************************************)
(* Model of web/src/features/exchanges/ExchangeArrow.tsx: one mounted      *)
(* instance of the ExchangeArrow function component, rendered by React.    *)
(*                                                                         *)
(* Units.  Pixels (projection, viewport) are integers.  The map zoom is    *)
(* kept in tenths and netFlow in tenths, so that the scale                 *)
(*     k = 0.04 + (zoom - 1.5) * 0.1                                       *)
(* is exact in hundredths: 100 * k = 4 + (10 * zoom - 15).  `transform.k`  *)
(* below is k in hundredths, which is also the asset half extent 100 * k   *)
(* in pixels.                                                              *)
(*                                                                         *)
(* React.  The component calls its hooks in this order: useSetAtom (l.34), *)
(* then, only after the early return of l.36-38, useEffect (l.40) and      *)
(* useMemo (l.52).  React keeps the hooks of the last committed render on  *)
(* the instance (`hooks`); an update that asks for a hook the instance     *)
(* does not have throws inside that hook call, and an update that returns  *)
(* having used fewer hooks than the instance has is rejected by React      *)
(* after the function returned.  A render that fails unmounts the          *)
(* instance, which runs the cleanup of its effect, and the instance is     *)
(* gone for good ("crashed").  The effect of l.40-50 has an empty          *)
(* dependency list: it runs in the commit of the mount render, its cleanup *)
(* in the unmount.                                                         *)
(***************************************************************************)
EXTENDS Integers, Sequences, FiniteSets, TLC

VARIABLES
    phase,          \* "initial", "mounted", "unmounted", "crashed"
    hooks,          \* hooks of the last committed render of the instance
    memo,           \* useMemo cell: [deps, value], NoMemo when there is none
    cleanup,        \* the effect returned a cleanup function (l.49)
    listeners,      \* wheel listeners of this arrow on #exchange-layer
    attaches,       \* addEventListener calls of the current/last mount
    props,          \* input of the last invocation
    ret,            \* what the last invocation of ExchangeArrow did
    outcome,        \* how the last render pass ended
    result,         \* the element returned when ret = "Render"
    calls,          \* collaborator calls made by the last invocation, in order
    headerHeight    \* what getHeaderHeight() returns (fixed UI chrome height)

vars == <<phase, hooks, memo, cleanup, listeners, attaches, props, ret,
          outcome, result, calls, headerHeight>>

----------------------------------------------------------------------------
(* Input domains *)

MaxZoomTenths == 21

Absent == <<>>
Undefined == <<>>
NaN == <<>>
Num(n) == <<n>>

LonLats == {Absent, <<10, 50>>}
NetFlows == {Undefined, Num(5), Num(-10), Num(6000)}
\* the exchanges on the map: carbon intensity of the flow, heading of the corridor
Exchanges == {[co2intensity |-> 120, rotation |-> 0],
              [co2intensity |-> 700, rotation |-> 270]}
Zooms == {5} \cup (20 .. MaxZoomTenths)
ViewportWidths == {200}
ViewportHeights == {120}
HeaderHeights == {48}

Points ==
    {[x |-> -11, y |-> 60], [x |-> 100, y |-> -11], [x |-> 211, y |-> 60],
     [x |-> 100, y |-> 131], [x |-> -10, y |-> -10], [x |-> 210, y |-> 130]}

NoPoint == [x |-> 0, y |-> 0]

ExchangeArrowData ==
    {[lonlat |-> l, netFlow |-> n, co2intensity |-> e.co2intensity,
      rotation |-> e.rotation] : l \in LonLats, n \in NetFlows, e \in Exchanges}

\* `projected` is what map.project(data.lonlat) returns for the map's camera.
ExchangeArrowProps ==
    {p \in [data : ExchangeArrowData, viewportWidth : ViewportWidths,
            viewportHeight : ViewportHeights, mapZoom : Zooms,
            projected : Points \cup {NoPoint}, colorBlindMode : BOOLEAN] :
        (p.data.lonlat = Absent) <=> (p.projected = NoPoint)}

NoProps ==
    [data |-> [lonlat |-> Absent, netFlow |-> Undefined, co2intensity |-> 0,
               rotation |-> 0],
     viewportWidth |-> 0, viewportHeight |-> 0, mapZoom |-> 0,
     projected |-> NoPoint, colorBlindMode |-> FALSE]

NoMemo == [deps |-> <<>>, value |-> <<>>]

NoResult ==
    [transform |-> [x |-> 0, y |-> 0, k |-> 0, r |-> 0],
     imageSource |-> <<>>, tooltipClassName |-> <<>>]

----------------------------------------------------------------------------
(* The body of ExchangeArrow *)

Abs(n) == IF n < 0 THEN -n ELSE n

\* Math.abs(data.netFlow ?? 0), in tenths
AbsFlow(netFlow) == IF netFlow = Undefined THEN 0 ELSE Abs(netFlow[1])

\* Math.abs(netFlow), in tenths; Math.abs(undefined) is NaN
MathAbs(netFlow) == IF netFlow = Undefined THEN NaN ELSE Num(Abs(netFlow[1]))

\* netFlow > 0; undefined > 0 is false
IsPositive(netFlow) == netFlow # Undefined /\ netFlow[1] > 0

\* the gate of l.36 testing the wrong field
HasNetFlow(data) == data.netFlow # Undefined

HasLonLat(data) == data.lonlat # Absent

quantizedCo2IntensityScale(co2intensity) ==
    IF co2intensity < 400 THEN "low" ELSE "high"

quantizedExchangeSpeedScale(absNetFlow) ==
    IF absNetFlow = NaN THEN "0"
    ELSE IF absNetFlow[1] < 5000 THEN "0" ELSE "1"

Prefix(colorBlindModeEnabled) ==
    IF colorBlindModeEnabled THEN "colorblind-" ELSE ""

AssetKey(colorBlindModeEnabled, co2intensity, netFlow) ==
    <<Prefix(colorBlindModeEnabled), "arrow-",
      quantizedCo2IntensityScale(co2intensity), "-animated-",
      quantizedExchangeSpeedScale(MathAbs(netFlow))>>

\* resolvePath(`images/arrows/...`).pathname
ImageSource(colorBlindModeEnabled, co2intensity, netFlow) ==
    <<"/images/arrows/">> \o AssetKey(colorBlindModeEnabled, co2intensity, netFlow)

\* a dependency list that forgets the colorblind flag
MemoDepsWithoutMode(p) == <<p.data.co2intensity, p.data.netFlow>>

MemoDeps(p) == <<p.colorBlindMode, p.data.co2intensity, p.data.netFlow>>

\* useMemo: the factory runs on mount and when a dependency changed
UseMemo(cell, p) ==
    IF cell # NoMemo /\ cell.deps = MemoDeps(p)
    THEN [cell |-> cell, ran |-> FALSE]
    ELSE [cell |-> [deps |-> MemoDeps(p),
                    value |-> ImageSource(p.colorBlindMode, p.data.co2intensity,
                                          p.data.netFlow)],
          ran |-> TRUE]

\* k in hundredths: 0.04 + (mapZoom - 1.5) * 0.1
Scale(mapZoom) == 4 + (mapZoom - 15)

\* the reversal applied to the wrong sign of the flow
RotationReversed(rotation, netFlow) ==
    rotation + (IF IsPositive(netFlow) THEN 0 ELSE 180)

Rotation(rotation, netFlow) == rotation + (IF IsPositive(netFlow) THEN 180 ELSE 0)

Transform(p) ==
    [x |-> p.projected.x, y |-> p.projected.y,
     k |-> Scale(p.mapZoom), r |-> Rotation(p.data.rotation, p.data.netFlow)]

TooltipClassName(transform, hh) ==
    <<"max-h-[256px] max-w-[512px] hidden md:flex",
      IF transform.y - 76 < hh THEN " top-[76px]" ELSE " top-[-76px]">>

FlowVeryLow(p) == AbsFlow(p.data.netFlow) < 10
VeryTiny(t) == t.k < 10
LeftOfViewport(t) == t.x + t.k < 0
AboveViewport(t) == t.y + t.k < 0
RightOfViewport(t, p) == t.x - t.k > p.viewportWidth
BelowViewport(t, p) == t.y - t.k > p.viewportHeight

Gates(p, t) ==
    IF FlowVeryLow(p) THEN "Skip"
    ELSE IF VeryTiny(t) THEN "Skip"
    ELSE IF LeftOfViewport(t) THEN "Skip"
    ELSE IF AboveViewport(t) THEN "Skip"
    ELSE IF RightOfViewport(t, p) THEN "Skip"
    ELSE IF BelowViewport(t, p) THEN "Skip"
    ELSE "Render"

\* the zoom and the header height read only after the gate of l.36
PreambleLazy == <<"useSetAtom">>

Preamble == <<"getZoom", "useSetAtom", "getHeaderHeight">>
FirstHooks == <<"useSetAtom">>
AllHooks == <<"useSetAtom", "useEffect", "useMemo">>
Factory == <<"quantizedCo2IntensityScale", "quantizedExchangeSpeedScale",
             "resolvePath">>

\* map.project moved behind the flow threshold of l.74
ProjectionAfterMagnitudeGate(p) ==
    IF FlowVeryLow(p) THEN <<>> ELSE <<"project">>

\* l.60: the projection is taken before any of the gates of l.73-98
Projection(p) == <<"project">>

\* One invocation of the function on an instance whose last committed render
\* left the hooks `current` (<<>> on mount) and the memo cell `cell`.
ExchangeArrow(current, cell, p, hh) ==
    IF ~HasLonLat(p.data)
    THEN [ret |-> "Skip", calls |-> Preamble, hooks |-> FirstHooks,
          memo |-> NoMemo, result |-> NoResult]
    ELSE IF current # <<>> /\ Len(current) < 2
    THEN [ret |-> "Throw", calls |-> Preamble \o <<"useEffect">>,
          hooks |-> FirstHooks, memo |-> NoMemo, result |-> NoResult]
    ELSE
        LET m == UseMemo(IF current = <<>> THEN NoMemo ELSE cell, p)
            t == Transform(p)
            g == Gates(p, t)
        IN  [ret |-> g,
             calls |-> Preamble \o <<"useEffect", "useMemo">>
                       \o (IF m.ran THEN Factory ELSE <<>>) \o Projection(p),
             hooks |-> AllHooks,
             memo |-> m.cell,
             result |-> IF g = "Render"
                        THEN [transform |-> t, imageSource |-> m.cell.value,
                              tooltipClassName |-> TooltipClassName(t, hh)]
                        ELSE NoResult]

\* React's check of the hooks after the function has run
RenderWithHooks(current, cell, p, hh) ==
    LET r == ExchangeArrow(current, cell, p, hh)
    IN  r @@
        [outcome |-> IF r.ret = "Throw" THEN "Error"
                     ELSE IF current # <<>> /\ Len(r.hooks) < Len(current)
                          THEN "Error"
                          ELSE r.ret]

----------------------------------------------------------------------------
(* The instance's life *)

\* getHeaderHeight() of features/charts/bar-breakdown/utils
getHeaderHeight == headerHeight

Init ==
    /\ phase = "initial"
    /\ hooks = <<>>
    /\ memo = NoMemo
    /\ cleanup = FALSE
    /\ listeners = 0
    /\ attaches = 0
    /\ props = NoProps
    /\ ret = "None"
    /\ outcome = "None"
    /\ result = NoResult
    /\ calls = <<>>
    /\ headerHeight \in HeaderHeights

\* a cleanup that removes nothing
RemoveNothing(n, hasCleanup) == n

\* the cleanup of l.49
RemoveListener(n, hasCleanup) == IF hasCleanup THEN n - 1 ELSE n

Record(p, r) ==
    /\ props' = p
    /\ ret' = r.ret
    /\ outcome' = r.outcome
    /\ result' = r.result
    /\ calls' = r.calls

\* First render of a new instance and its commit; the effect of l.40-50 runs
\* when the render called useEffect, and `found` is whether
\* document.querySelector('#exchange-layer') found the layer.
Mount(p, found) ==
    /\ phase \in {"initial", "unmounted"}
    /\ LET r == RenderWithHooks(<<>>, NoMemo, p, getHeaderHeight)
           effect == Len(r.hooks) >= 2 /\ found
       IN  /\ Record(p, r)
           /\ hooks' = r.hooks
           /\ memo' = r.memo
           /\ cleanup' = effect
           /\ listeners' = IF effect THEN listeners + 1 ELSE listeners
           /\ attaches' = IF effect THEN 1 ELSE 0
    /\ phase' = "mounted"
    /\ UNCHANGED headerHeight

\* A later render of the mounted instance
Rerender(p) ==
    /\ phase = "mounted"
    /\ LET r == RenderWithHooks(hooks, memo, p, getHeaderHeight)
       IN  /\ Record(p, r)
           /\ IF r.outcome = "Error"
              THEN /\ phase' = "crashed"
                   /\ hooks' = <<>>
                   /\ memo' = NoMemo
                   /\ cleanup' = FALSE
                   /\ listeners' = RemoveListener(listeners, cleanup)
              ELSE /\ phase' = "mounted"
                   /\ hooks' = r.hooks
                   /\ memo' = r.memo
                   /\ UNCHANGED <<cleanup, listeners>>
    /\ UNCHANGED <<attaches, headerHeight>>

Unmount ==
    /\ phase = "mounted"
    /\ phase' = "unmounted"
    /\ hooks' = <<>>
    /\ memo' = NoMemo
    /\ cleanup' = FALSE
    /\ listeners' = RemoveListener(listeners, cleanup)
    /\ props' = NoProps
    /\ ret' = "None"
    /\ outcome' = "None"
    /\ result' = NoResult
    /\ calls' = <<>>
    /\ UNCHANGED <<attaches, headerHeight>>

Next ==
    \/ \E p \in ExchangeArrowProps, found \in BOOLEAN : Mount(p, found)
    \/ \E p \in ExchangeArrowProps : Rerender(p)
    \/ Unmount

Spec == Init /\ [][Next]_vars

----------------------------------------------------------------------------
(* Properties *)

Invoked == ret # "None"
LonLatAbsent == props.data.lonlat = Absent
InCalls(name) == \E n \in 1 .. Len(calls) : calls[n] = name

\* the asset box [x - 100k, x + 100k] x [y - 100k, y + 100k] meets the closed
\* viewport [0, width] x [0, height]
BoxMeetsViewport ==
    LET k == 4 + (props.mapZoom - 15)
    IN  /\ props.projected.x + k >= 0
        /\ props.projected.x - k <= props.viewportWidth
        /\ props.projected.y + k >= 0
        /\ props.projected.y - k <= props.viewportHeight

\* C1: whenever the record of the last invocation has no lonlat, the
\* function returned null (Skip), whatever the other inputs are.
C1_AbsentLonLatSkips == (Invoked /\ LonLatAbsent) => ret = "Skip"

\* a record without lonlat whose other fields would pass every gate
C1_Witness ==
    /\ LonLatAbsent
    /\ ret = "Skip"
    /\ AbsFlow(props.data.netFlow) >= 10
    /\ props.mapZoom >= 21
    /\ props.colorBlindMode

\* C2: every invocation with abs(netFlow) < 1 (missing netFlow counting as 0)
\* returns Skip, and a Skip with abs(netFlow) >= 1 has another cause.
C2_MagnitudeGate ==
    Invoked =>
        /\ AbsFlow(props.data.netFlow) < 10 => ret = "Skip"
        /\ (AbsFlow(props.data.netFlow) >= 10 /\ ret = "Skip") =>
               \/ LonLatAbsent
               \/ 4 + (props.mapZoom - 15) < 10
               \/ ~BoxMeetsViewport

\* C3: every invocation with zoom <= 0.5 returns Skip, and every Render
\* carries the scale 0.04 + (zoom - 1.5) * 0.1, which is at least 0.1.
C3_ScaleGate ==
    Invoked =>
        /\ props.mapZoom <= 5 => ret = "Skip"
        /\ ret = "Render" =>
               /\ result.transform.k = 4 + (props.mapZoom - 15)
               /\ result.transform.k >= 10

\* C4: in every Render the rotation is baseRotation + 180 for a positive
\* netFlow and baseRotation otherwise.
C4_Rotation ==
    ret = "Render" =>
        result.transform.r =
            IF props.data.netFlow[1] > 0
            THEN props.data.rotation + 180
            ELSE props.data.rotation

\* a rendered arrow of a positive flow on a corridor of heading 270
C4_Witness ==
    /\ ret = "Render"
    /\ props.data.netFlow[1] > 0
    /\ props.data.rotation = 270
    /\ result.transform.r = 450

\* C5: a record that passes the drawability, magnitude and scale gates is
\* skipped exactly when its asset box does not meet the closed viewport.
C5_Culling ==
    (/\ Invoked
     /\ ~LonLatAbsent
     /\ AbsFlow(props.data.netFlow) >= 10
     /\ 4 + (props.mapZoom - 15) >= 10) =>
        (ret = "Skip" <=> ~BoxMeetsViewport)

\* C6: the output of an invocation is the output the same (record, viewport,
\* colorblind mode) gives on a freshly mounted instance: it depends on nothing
\* that earlier renders left behind.
C6_Pure ==
    Invoked =>
        LET fresh == RenderWithHooks(<<>>, NoMemo, props, getHeaderHeight)
        IN  /\ outcome = fresh.outcome
            /\ result = fresh.result

\* C7 as stated: a wheel listener is registered only for an arrow that is
\* currently rendered.
C7_ListenerOnlyWhileRendered == listeners > 0 => outcome = "Render"

\* C7 amended: the listener is scoped to the mounted instance, not to the
\* arrow being drawn: at most one is registered, only while the instance is
\* mounted and only for an instance whose mount render ran useEffect, and
\* none is left once the instance is unmounted or has failed.
C7_ListenerScopedToMount ==
    /\ listeners <= 1
    /\ phase # "mounted" => listeners = 0
    /\ listeners = 1 => (hooks = AllHooks /\ cleanup /\ attaches = 1)
    /\ (phase = "mounted" /\ attaches = 1) => listeners = 1

\* an instance that attached its listener and has been unmounted
C7_Witness ==
    /\ phase = "unmounted"
    /\ attaches = 1
    /\ listeners = 0

\* C8: no render of a mounted arrow ends in an error.
C8_NeverErrors == outcome # "Error"

\* C9 as stated: nothing is computed for a record without lonlat, and
\* map.project is invoked only for records with lonlat and abs(netFlow) >= 1.
C9_ShortCircuit ==
    Invoked =>
        /\ LonLatAbsent => calls = <<>>
        /\ InCalls("project") =>
               (~LonLatAbsent /\ AbsFlow(props.data.netFlow) >= 10)

\* C9 amended: every invocation first reads the zoom, takes the atom setter
\* and reads the header height; for a record without lonlat it does nothing
\* else; map.project is invoked only for a record with lonlat, and then as the
\* last collaborator call of every invocation that returns, whatever netFlow.
C9_CallOrder ==
    Invoked =>
        /\ Len(calls) >= 3
        /\ calls[1] = "getZoom"
        /\ calls[2] = "useSetAtom"
        /\ calls[3] = "getHeaderHeight"
        /\ LonLatAbsent => Len(calls) = 3
        /\ InCalls("project") => ~LonLatAbsent
        /\ (~LonLatAbsent /\ ret # "Throw") => calls[Len(calls)] = "project"

\* a record below the flow threshold that was projected all the same
C9_Witness ==
    /\ ~LonLatAbsent
    /\ AbsFlow(props.data.netFlow) < 10
    /\ ret = "Skip"
    /\ InCalls("project")

\* C10: the image source of every Render is the key computed afresh from the
\* current colorblind mode, carbon intensity and netFlow.
C10_AssetKeyFresh ==
    ret = "Render" =>
        Tail(result.imageSource) =
            <<IF props.colorBlindMode THEN "colorblind-" ELSE "", "arrow-",
              quantizedCo2IntensityScale(props.data.co2intensity), "-animated-",
              quantizedExchangeSpeedScale(MathAbs(props.data.netFlow))>>

\* a Render whose image source came out of the memo cell of an earlier render
C10_Witness ==
    /\ ret = "Render"
    /\ InCalls("useMemo")
    /\ ~InCalls("resolvePath")
    /\ props.colorBlindMode
====
